---- MODULE Spec2Model ----
(***************************************************************************)
(* Model of scripts/qaoa_solver.py: the TSP -> QUBO formulation            *)
(* (TSPQUBOFormulation), the bitstring decoder (decode_solution) and the   *)
(* orchestration of the classical and the QAOA backend (solve_tsp).        *)
(*                                                                         *)
(* Python values are modelled as follows.                                  *)
(*   - a list / numpy array is a sequence (1-based); a city or position k  *)
(*     of the code is element k+1 of the sequence;                         *)
(*   - a str is a sequence of one-character strings;                       *)
(*   - a dict is a function whose DOMAIN is the key set;                   *)
(*   - Optional[float] is a sequence of length 0 (None) or 1;              *)
(*   - a raised exception is the name of its class in a field "raised"     *)
(*     ("" when nothing was raised);                                       *)
(*   - float('inf') is the number Inf, larger than every modelled value.   *)
(***************************************************************************)
EXTENDS Integers, Sequences, FiniteSets

VARIABLES
    pc,                \* position in the operation being run
    distance_matrix,   \* argument of solve_tsp / TSPQUBOFormulation
    penalty_arg,       \* argument penalty (None or a number)
    mode,              \* argument mode of solve_tsp
    SCIPY_AVAILABLE,   \* module flag set by the guarded import of scipy
    QISKIT_AVAILABLE,  \* module flag set by the guarded import of qiskit
    formulation,       \* the TSPQUBOFormulation object (self.*)
    qp,                \* the objective built by create_qubo
    classical_result,  \* value returned by solve_classically
    qaoa_result,       \* value returned by solve_qaoa
    best_solution,     \* running best of solve_tsp, and its return value
    raised,            \* exception that left the operation ("" if none)
    bitstring,         \* argument of decode_solution / evaluated assignment
    decoded,           \* value returned by decode_solution
    energy             \* objective value of the assignment bitstring

vars == <<pc, distance_matrix, penalty_arg, mode, SCIPY_AVAILABLE,
          QISKIT_AVAILABLE, formulation, qp, classical_result, qaoa_result,
          best_solution, raised, bitstring, decoded, energy>>

----------------------------------------------------------------------------
(* Bounds of the model. *)

\* largest number of cities of the decoder's inputs
MaxN == 3

\* distances are drawn from 0..MaxDist
MaxDist == 2

\* energies reported by a backend are drawn from 0..MaxEnergy
MaxEnergy == 2

\* explicit penalty arguments are drawn from 0..MaxPenalty
MaxPenalty == 2

(* Program constants. *)

\* float('inf'), the initial length and energy of best_solution
Inf == 1000000

\* the fallback penalty
FallbackPenalty == 1000

None == <<>>

Some(v) == <<v>>

NoValue == [none |-> TRUE]

----------------------------------------------------------------------------
(* Python helpers. *)

\* range(n)
Range(n) == 0 .. (n - 1)

\* d.get(k, default)
Get(d, k, default) == IF k \in DOMAIN d THEN d[k] ELSE default

\* the dict d after d.update(e): the keys of e overwrite those of d
Update(d, e) ==
    [kk \in (DOMAIN d) \cup (DOMAIN e) |-> IF kk \in DOMAIN e THEN e[kk] ELSE d[kk]]

EmptyDict == <<>>

Digits == {"0", "1", "2", "3", "4", "5", "6", "7", "8", "9"}

\* int(b) of a one-character string b that is a digit (int raises ValueError
\* on any other character, see IntRaises)
IntOf(b) ==
    CASE b = "0" -> 0 [] b = "1" -> 1 [] b = "2" -> 2 [] b = "3" -> 3
      [] b = "4" -> 4 [] b = "5" -> 5 [] b = "6" -> 6 [] b = "7" -> 7
      [] b = "8" -> 8 [] b = "9" -> 9

IntRaises(b) == b \notin Digits

RECURSIVE SumSeq(_)
SumSeq(s) == IF s = <<>> THEN 0 ELSE Head(s) + SumSeq(Tail(s))

RECURSIVE MaxSeq(_)
MaxSeq(s) ==
    IF Len(s) = 1 THEN Head(s)
    ELSE LET m == MaxSeq(Tail(s)) IN IF Head(s) > m THEN Head(s) ELSE m

RECURSIVE Flatten(_)
Flatten(rows) == IF rows = <<>> THEN <<>> ELSE Head(rows) \o Flatten(Tail(rows))

\* np.max(a) of a two-dimensional array; raises ValueError on a zero-size array
NpMaxRaises(a) == Flatten(a) = <<>>

NpMax(a) == MaxSeq(Flatten(a))

\* a sum check that accepts every sum of at least one
IsCloseToOne_AtLeastOne(v) == v >= 1

\* np.isclose(v, 1) of an integer v: |v - 1| <= 1e-8 + 1e-5 * 1
IsCloseToOne(v) == v = 1

----------------------------------------------------------------------------
(* class TSPQUBOFormulation *)

\* a constructor whose automatic penalty is the largest distance alone
Formulation_PenaltyMaxDist(dm, pen) ==
    IF NpMaxRaises(dm)
    THEN [raised |-> "ValueError", distance_matrix |-> dm, n |-> Len(dm), penalty |-> 0]
    ELSE LET p0 == IF pen # None THEN pen[1] ELSE NpMax(dm)
         IN  [raised |-> "", distance_matrix |-> dm, n |-> Len(dm),
              penalty |-> IF p0 = 0 THEN FallbackPenalty ELSE p0]

\* TSPQUBOFormulation.__init__(distance_matrix, penalty)
Formulation(dm, pen) ==
    IF NpMaxRaises(dm)
    THEN [raised |-> "ValueError", distance_matrix |-> dm, n |-> Len(dm), penalty |-> 0]
    ELSE LET n == Len(dm)
             max_dist == NpMax(dm)
             p0 == IF pen # None THEN pen[1] ELSE 2 * n * max_dist
         IN  [raised |-> "", distance_matrix |-> dm, n |-> n,
              penalty |-> IF p0 = 0 THEN FallbackPenalty ELSE p0]

\* TSPQUBOFormulation.get_variable_index(city, position)
get_variable_index(n, city, position) == city * n + position

\* x_matrix of decode_solution: the digits of the bitstring reshaped (n, n);
\* x_matrix[i, p] is XMatrix(n, b)[i + 1][p + 1]
XMatrix(n, b) ==
    [i \in 1 .. n |-> [p \in 1 .. n |-> IntOf(b[(i - 1) * n + p])]]

\* np.sum(x_matrix[:, p])
ColumnSum(n, xm, p) == SumSeq([i \in 1 .. n |-> xm[i][p + 1]])

\* np.sum(x_matrix[i, :])
RowSum(n, xm, i) == SumSeq(xm[i + 1])

\* the lookup with the axes swapped: x_matrix[p, :] instead of x_matrix[:, p]
CitiesAt_RowInsteadOfColumn(n, xm, p) == {i \in Range(n) : xm[p + 1][i + 1] = 1}

\* np.where(x_matrix[:, p] == 1)[0]: the cities marked at position p, increasing
CitiesAt(n, xm, p) == {i \in Range(n) : xm[i + 1][p + 1] = 1}

MinOf(S) == CHOOSE m \in S : \A k \in S : m <= k

\* TSPQUBOFormulation.decode_solution(bitstring)
decode_solution(n, b) ==
    IF Len(b) # n * n \/ \E k \in 1 .. Len(b) : IntRaises(b[k])
    THEN [raised |-> "ValueError", tour |-> <<>>, feasible |-> FALSE,
          violations |-> [pos |-> 0, city |-> 0]]
    ELSE LET xm == XMatrix(n, b)
             pos == Cardinality({p \in Range(n) : ~IsCloseToOne(ColumnSum(n, xm, p))})
             city == Cardinality({i \in Range(n) : ~IsCloseToOne(RowSum(n, xm, i))})
             feasible == pos = 0 /\ city = 0
             tour_array == [p \in 1 .. n |->
                               IF CitiesAt(n, xm, p - 1) # {}
                               THEN MinOf(CitiesAt(n, xm, p - 1)) ELSE 0]
         IN  [raised |-> "",
              tour |-> IF feasible THEN Append(tour_array, tour_array[1]) ELSE <<>>,
              feasible |-> feasible,
              violations |-> [pos |-> pos, city |-> city]]

MaxOf(S) == CHOOSE m \in S : \A k \in S : m >= k

\* The three loop nests of create_qubo run over triples of range(n); iteration
\* number t = (a * n + b) * n + c is the one with loop variables (a, b, c), and
\* the iterations run in increasing t.
Iterations(n) == Range(n * n * n)

Outer(n, t) == t \div (n * n)

Middle(n, t) == (t \div n) % n

Inner(n, t) == t % n

\* lines 92-102, "for i, for j, for p": the iterations that pass "if i == j:
\* continue", and the key (idx1, idx2) each one assigns
CostIterations(n) == {t \in Iterations(n) : Outer(n, t) # Middle(n, t)}

CostKey(n, t) ==
    <<get_variable_index(n, Outer(n, t), Inner(n, t)),
      get_variable_index(n, Middle(n, t), (Inner(n, t) + 1) % n)>>

\* lines 112-118, "for i, for p, for q": the key (idx, idx2) of an iteration
CityKey(n, t) ==
    <<get_variable_index(n, Outer(n, t), Middle(n, t)),
      get_variable_index(n, Outer(n, t), Inner(n, t))>>

\* lines 122-128, "for p, for i, for j": the key (idx, idx2) of an iteration
PositionKey(n, t) ==
    <<get_variable_index(n, Middle(n, t), Outer(n, t)),
      get_variable_index(n, Inner(n, t), Outer(n, t))>>

\* the sizes n for which create_qubo is run
FormulatedSizes == {1, 2, 3}

\* The control flow of the loops depends on n alone: for each n, the last
\* iteration of the cost loop that assigns each key, ...
LastCostIteration ==
    [n \in FormulatedSizes |->
        [key \in {CostKey(n, t) : t \in CostIterations(n)} |->
            MaxOf({t \in CostIterations(n) : CostKey(n, t) = key})]]

\* ... the number of iterations of the two penalty loops that visit each key
\* of quadratic_penalty, ...
QuadraticVisits ==
    [n \in FormulatedSizes |->
        [key \in {CityKey(n, t) : t \in Iterations(n)}
                   \cup {PositionKey(n, t) : t \in Iterations(n)} |->
            Cardinality({t \in Iterations(n) : CityKey(n, t) = key})
              + Cardinality({t \in Iterations(n) : PositionKey(n, t) = key})]]

\* ... and the number of times lines 115 and 125 visit each idx of
\* linear_penalty (once per (i, p) of the city loop, once per (p, i) of the
\* position loop)
LinearVisits ==
    [n \in FormulatedSizes |->
        [idx \in {get_variable_index(n, i, p) : i \in Range(n), p \in Range(n)} |->
            Cardinality({ip \in Range(n) \X Range(n) :
                            get_variable_index(n, ip[1], ip[2]) = idx})
              + Cardinality({pi \in Range(n) \X Range(n) :
                            get_variable_index(n, pi[2], pi[1]) = idx})]]

\* lines 91-102: cost_objective[(idx1, idx2)] = distance_matrix[i, j]; a key
\* assigned by several iterations keeps the value of the last one
CostLoop(f) ==
    [key \in DOMAIN LastCostIteration[f.n] |->
        LET last == LastCostIteration[f.n][key]
        IN  f.distance_matrix[Outer(f.n, last) + 1][Middle(f.n, last) + 1]]

\* a quadratic penalty that is stored, not accumulated, at each visit
AddPenalty_Overwrite(visits, penalty) == penalty

\* quadratic_penalty[key] = quadratic_penalty.get(key, 0.0) + self.penalty,
\* executed once by each of the iterations that visit the key
AddPenalty(visits, penalty) == visits * penalty

\* a linear penalty that subtracts the penalty once per visit
SubtractTwicePenalty_Once(visits, penalty) == 0 - visits * penalty

\* linear_penalty[idx] = linear_penalty.get(idx, 0.0) - 2 * self.penalty,
\* executed once by each of the iterations that visit idx
SubtractTwicePenalty(visits, penalty) == 0 - visits * 2 * penalty

\* lines 108, 116-118 and 126-128: quadratic_penalty after both loop nests
QuadraticPenalty(f) ==
    [key \in DOMAIN QuadraticVisits[f.n] |->
        AddPenalty(QuadraticVisits[f.n][key], f.penalty)]

\* lines 107, 113-115 and 123-125: linear_penalty after both loop nests
LinearPenalty(f) ==
    [idx \in DOMAIN LinearVisits[f.n] |->
        SubtractTwicePenalty(LinearVisits[f.n][idx], f.penalty)]

\* TSPQUBOFormulation.create_qubo(): the objective of the QuadraticProgram
create_qubo(f) ==
    [num_vars |-> f.n * f.n,
     linear |-> Update(EmptyDict, LinearPenalty(f)),
     quadratic |-> Update(CostLoop(f), QuadraticPenalty(f)),
     constant |-> 2 * f.n * f.penalty]

\* bit k (0-based) of the assignment given as a string of '0's and '1's
Bit(x, k) == IntOf(x[k + 1])

\* the variables set to 1 by the assignment x
SetVariables(q, x) == {a \in Range(q.num_vars) : Bit(x, a) = 1}

\* sum of linear[a] * x[a]: the terms of the variables that are not set are 0
LinearSum(q, x) ==
    LET S == SetVariables(q, x)
    IN  SumSeq([k \in 1 .. q.num_vars |->
                   IF k - 1 \in S THEN Get(q.linear, k - 1, 0) ELSE 0])

\* sum of quadratic[(a, b)] * x[a] * x[b] over the stored ordered pairs
QuadraticSum(q, x) ==
    LET S == SetVariables(q, x)
        row(a) == SumSeq([k \in 1 .. q.num_vars |->
                             IF k - 1 \in S THEN Get(q.quadratic, <<a, k - 1>>, 0) ELSE 0])
    IN  SumSeq([k \in 1 .. q.num_vars |-> IF k - 1 \in S THEN row(k - 1) ELSE 0])

\* the value of the objective at the assignment x: the constant, plus the linear
\* coefficients of the set variables, plus the quadratic coefficients of the
\* pairs of set variables
Energy(q, x) == q.constant + LinearSum(q, x) + QuadraticSum(q, x)

----------------------------------------------------------------------------
(* Inputs. *)

\* the argument penalty: None, or a number of 0..MaxPenalty
PenaltyArgs == {None} \cup {Some(v) : v \in 0 .. MaxPenalty}

ZeroMatrix(n) == [i \in 1 .. n |-> [j \in 1 .. n |-> 0]]

\* the strings of '0's and '1's of length n*n
BinaryStrings(n) == [1 .. n * n -> {"0", "1"}]

\* the permutations of the cities, as functions position -> city
CityPermutations(n) ==
    {f \in [Range(n) -> Range(n)] : \A p, q \in Range(n) : f[p] = f[q] => p = q}

\* b is the bitstring of the permutation pi: a 1 exactly at index pi(p)*n + p
\* for each position p
IsPermutationBitstring(n, pi, b) ==
    /\ Len(b) = n * n
    /\ \A k \in 1 .. n * n :
          (b[k] = "1") <=> (\E p \in Range(n) : k - 1 = get_variable_index(n, pi[p], p))
    /\ \A k \in 1 .. n * n : b[k] \in {"0", "1"}

\* the bitstring of the permutation pi
PermutationBitstring(n, pi) ==
    [k \in 1 .. n * n |->
        IF \E p \in Range(n) : k - 1 = get_variable_index(n, pi[p], p)
        THEN "1" ELSE "0"]

----------------------------------------------------------------------------
(* The decoder on the strings a backend produces (digits 0 and 1, length    *)
(* n*n: "".join(str(int(b)) ...) over the n*n variables).                   *)

DecodeIdle ==
    /\ distance_matrix = NoValue /\ penalty_arg = None /\ mode = ""
    /\ SCIPY_AVAILABLE = TRUE /\ QISKIT_AVAILABLE = TRUE
    /\ qp = NoValue /\ classical_result = NoValue /\ qaoa_result = NoValue
    /\ best_solution = NoValue /\ energy = 0

InitDecode ==
    /\ pc = "decode"
    /\ \E n \in 2 .. MaxN :
          /\ formulation = Formulation(ZeroMatrix(n), None)
          /\ bitstring \in BinaryStrings(n)
    /\ decoded = NoValue
    /\ raised = ""
    /\ DecodeIdle

Decode ==
    /\ pc = "decode"
    /\ LET r == decode_solution(formulation.n, bitstring)
       IN  /\ decoded' = r
           /\ raised' = r.raised
    /\ pc' = "decoded"
    /\ UNCHANGED <<distance_matrix, penalty_arg, mode, SCIPY_AVAILABLE,
                   QISKIT_AVAILABLE, formulation, qp, classical_result,
                   qaoa_result, best_solution, bitstring, energy>>

NextDecode == Decode

SpecDecode == InitDecode /\ [][NextDecode]_vars

----------------------------------------------------------------------------
(* The decoder on arbitrary strings: a string of '0's and '1's of length    *)
(* n*n, possibly with one character replaced by another digit or by a       *)
(* letter, or a string of '0's and '1's that is one character short or long.*)

OtherChars == {"2", "9", "a"}

RawStrings(n) ==
    BinaryStrings(n)
      \cup {[b EXCEPT ![k] = c] : b \in BinaryStrings(n), k \in {1, n * n}, c \in OtherChars}
      \cup [1 .. n * n - 1 -> {"0", "1"}]
      \cup [1 .. n * n + 1 -> {"0", "1"}]

InitDecodeAny ==
    /\ pc = "decode"
    /\ \E n \in 2 .. MaxN :
          /\ formulation = Formulation(ZeroMatrix(n), None)
          /\ bitstring \in RawStrings(n)
    /\ decoded = NoValue
    /\ raised = ""
    /\ DecodeIdle

SpecDecodeAny == InitDecodeAny /\ [][NextDecode]_vars

----------------------------------------------------------------------------
(* The formulation: the constructor, create_qubo, and the objective         *)
(* evaluated at an assignment.                                              *)

\* the sizes of the formulation's inputs
QuboSizes == {2, 3}

\* square matrices of non-negative distances: every 2 x 2 matrix over
\* 0..MaxDist (diagonal included), and the 3 x 3 matrices with a zero diagonal
\* whose other entries are 0 or MaxDist
QuboMatrices(n) ==
    IF n = 2 THEN [1 .. 2 -> [1 .. 2 -> 0 .. MaxDist]]
    ELSE {[i \in 1 .. n |-> [j \in 1 .. n |-> IF i = j THEN 0 ELSE e[<<i, j>>]]] :
             e \in [{ij \in (1 .. n) \X (1 .. n) : ij[1] # ij[2]} -> {0, MaxDist}]}

QuboIdle ==
    /\ mode = "" /\ SCIPY_AVAILABLE = TRUE /\ QISKIT_AVAILABLE = TRUE
    /\ classical_result = NoValue /\ qaoa_result = NoValue
    /\ best_solution = NoValue /\ decoded = NoValue /\ raised = ""

InitQubo ==
    /\ pc = "new"
    /\ \E n \in QuboSizes : distance_matrix \in QuboMatrices(n)
    /\ penalty_arg \in PenaltyArgs
    /\ formulation = NoValue
    /\ qp = NoValue
    /\ bitstring = <<>>
    /\ energy = 0
    /\ QuboIdle

\* tsp_qubo_formulation = TSPQUBOFormulation(dist_matrix, penalty)
Construct ==
    /\ pc = "new"
    /\ formulation' = Formulation(distance_matrix, penalty_arg)
    /\ pc' = "constructed"
    /\ UNCHANGED <<distance_matrix, penalty_arg, mode, SCIPY_AVAILABLE,
                   QISKIT_AVAILABLE, qp, classical_result, qaoa_result,
                   best_solution, raised, bitstring, decoded, energy>>

\* qp = tsp_qubo_formulation.create_qubo()
CreateQubo ==
    /\ pc = "constructed"
    /\ qp' = create_qubo(formulation)
    /\ pc' = "built"
    /\ UNCHANGED <<distance_matrix, penalty_arg, mode, SCIPY_AVAILABLE,
                   QISKIT_AVAILABLE, formulation, classical_result, qaoa_result,
                   best_solution, raised, bitstring, decoded, energy>>

\* the objective evaluated at a binary assignment of the n*n variables
Evaluate ==
    /\ pc = "built"
    /\ \E x \in BinaryStrings(formulation.n) :
          /\ bitstring' = x
          /\ energy' = Energy(qp, x)
    /\ pc' = "evaluated"
    /\ UNCHANGED <<distance_matrix, penalty_arg, mode, SCIPY_AVAILABLE,
                   QISKIT_AVAILABLE, formulation, qp, classical_result,
                   qaoa_result, best_solution, raised, decoded>>

NextQubo == Construct \/ CreateQubo \/ Evaluate

SpecQubo == InitQubo /\ [][NextQubo]_vars

----------------------------------------------------------------------------
(* solve_tsp: formulate, run the classical backend, run the QAOA backend,    *)
(* return best_solution.                                                     *)

\* the distance matrices solve_tsp is called with: the 3-city example
\* [[0,1,2],[1,0,3],[2,3,0]] (both directions of the tour have length 6), an
\* asymmetric 3-city matrix (the tour 0,1,2,0 has length 7, its reverse 10) and
\* a 2-city matrix
ValidMatrices ==
    { <<<<0, 1, 2>>, <<1, 0, 3>>, <<2, 3, 0>>>>,
      <<<<0, 2, 3>>, <<4, 0, 2>>, <<3, 3, 0>>>>,
      <<<<0, 1>>, <<1, 0>>>> }

\* the empty matrix, a 1 x 1 matrix, a 2 x 3 matrix, a matrix with negative
\* entries
InvalidMatrices ==
    { <<>>,
      <<<<0>>>>,
      <<<<0, 1, 2>>, <<1, 0, 3>>>>,
      <<<<0, -1>>, <<-1, 0>>>> }

Modes == {"hybrid", "classical", "quantum"}

Flip(c) == IF c = "0" THEN "1" ELSE "0"

\* the strings a backend may return for n cities: strings of '0's and '1's of
\* length n*n (both backends join the digits of the n*n variables); here every
\* permutation, every permutation with its first bit flipped, and all zeros
BackendBitstrings(n) ==
    {PermutationBitstring(n, pi) : pi \in CityPermutations(n)}
      \cup {[PermutationBitstring(n, pi) EXCEPT ![1] = Flip(@)] : pi \in CityPermutations(n)}
      \cup {[k \in 1 .. n * n |-> "0"]}

\* the dict returned by a backend; solve_tsp reads "bitstring" and "energy"
\* (the other entries, "success", "message", "samples", are only passed on)
BackendResults(n) ==
    [bitstring : BackendBitstrings(n), energy : 0 .. MaxEnergy]

\* lines 305-308
InitialBest ==
    [tour |-> <<>>, length |-> Inf, feasible |-> FALSE,
     energy |-> Inf, bitstring |-> <<>>, solver |-> "None"]

\* lines 318-321 and 339-342: 0 when not feasible, else the sum of
\* dist_matrix[tour[i], tour[i+1]] for i in range(len(tour) - 1)
TourLength(dm, tour, feasible) ==
    IF feasible
    THEN SumSeq([i \in 1 .. Len(tour) - 1 |-> dm[tour[i] + 1][tour[i + 1] + 1]])
    ELSE 0

\* lines 323-328, 346-351 and 354-359: the dict assigned to best_solution
Solution(d, tour_length, result, solver) ==
    [tour |-> d.tour, length |-> tour_length, feasible |-> d.feasible,
     violations |-> d.violations, energy |-> result.energy,
     bitstring |-> result.bitstring, solver |-> solver, details |-> result]

\* line 345: feasible and tour_length < best_solution["length"]
QaoaReplacesBest(best, feasible, tour_length) ==
    feasible /\ tour_length < best.length

InitSolve ==
    /\ pc = "start"
    /\ distance_matrix \in ValidMatrices \cup InvalidMatrices
    /\ penalty_arg \in PenaltyArgs
    /\ mode \in Modes
    /\ SCIPY_AVAILABLE \in BOOLEAN
    /\ QISKIT_AVAILABLE \in BOOLEAN
    /\ formulation = NoValue
    /\ qp = NoValue
    /\ classical_result = NoValue
    /\ qaoa_result = NoValue
    /\ best_solution = NoValue
    /\ raised = ""
    /\ bitstring = <<>>
    /\ decoded = NoValue
    /\ energy = 0

\* lines 297-308. np.max raises ValueError on the empty matrix; create_qubo
\* uses the name QuadraticProgram (line 83), which is bound only when the
\* guarded import of qiskit succeeded, and raises NameError otherwise.
Formulate ==
    /\ pc = "start"
    /\ LET f == Formulation(distance_matrix, penalty_arg)
       IN  IF f.raised # ""
           THEN /\ raised' = f.raised
                /\ pc' = "raised"
                /\ UNCHANGED <<formulation, qp, best_solution>>
           ELSE IF ~QISKIT_AVAILABLE
           THEN /\ raised' = "NameError"
                /\ pc' = "raised"
                /\ formulation' = f
                /\ UNCHANGED <<qp, best_solution>>
           ELSE /\ formulation' = f
                /\ qp' = create_qubo(f)
                /\ best_solution' = InitialBest
                /\ pc' = "classical"
                /\ UNCHANGED raised
    /\ UNCHANGED <<distance_matrix, penalty_arg, mode, SCIPY_AVAILABLE,
                   QISKIT_AVAILABLE, classical_result, qaoa_result,
                   bitstring, decoded, energy>>

ClassicalSelected == mode \in {"classical", "hybrid"} /\ SCIPY_AVAILABLE

QuantumSelected == mode \in {"quantum", "hybrid"} /\ QISKIT_AVAILABLE

\* lines 311-313: the mode leaves the classical solver out, or SciPy is missing
ClassicalSkip ==
    /\ pc = "classical"
    /\ ~ClassicalSelected
    /\ pc' = "quantum"
    /\ UNCHANGED <<distance_matrix, penalty_arg, mode, SCIPY_AVAILABLE,
                   QISKIT_AVAILABLE, formulation, qp, classical_result,
                   qaoa_result, best_solution, raised, bitstring, decoded, energy>>

\* line 315: solver.solve_classically(qp) raises; solve_tsp has no handler
ClassicalRaise ==
    /\ pc = "classical"
    /\ ClassicalSelected
    /\ raised' = "Exception in solve_classically"
    /\ pc' = "raised"
    /\ UNCHANGED <<distance_matrix, penalty_arg, mode, SCIPY_AVAILABLE,
                   QISKIT_AVAILABLE, formulation, qp, classical_result,
                   qaoa_result, best_solution, bitstring, decoded, energy>>

\* lines 315-329: solver.solve_classically(qp) returns
ClassicalReturn ==
    /\ pc = "classical"
    /\ ClassicalSelected
    /\ \E result \in BackendResults(formulation.n) :
          LET d == decode_solution(formulation.n, result.bitstring)
              tour_length == TourLength(distance_matrix, d.tour, d.feasible)
          IN  /\ classical_result' = result
              /\ decoded' = d
              /\ IF d.raised # ""
                 THEN /\ raised' = d.raised
                      /\ pc' = "raised"
                      /\ UNCHANGED best_solution
                 ELSE /\ best_solution' = Solution(d, tour_length, result, "classical")
                      /\ pc' = "quantum"
                      /\ UNCHANGED raised
    /\ UNCHANGED <<distance_matrix, penalty_arg, mode, SCIPY_AVAILABLE,
                   QISKIT_AVAILABLE, formulation, qp, qaoa_result, bitstring, energy>>

\* lines 332-334 and 361: the mode leaves QAOA out (or Qiskit is missing);
\* return best_solution
QuantumSkip ==
    /\ pc = "quantum"
    /\ ~QuantumSelected
    /\ pc' = "done"
    /\ UNCHANGED <<distance_matrix, penalty_arg, mode, SCIPY_AVAILABLE,
                   QISKIT_AVAILABLE, formulation, qp, classical_result,
                   qaoa_result, best_solution, raised, bitstring, decoded, energy>>

\* line 336: solver.solve_qaoa(qp) raises; solve_tsp has no handler
QuantumRaise ==
    /\ pc = "quantum"
    /\ QuantumSelected
    /\ raised' = "Exception in solve_qaoa"
    /\ pc' = "raised"
    /\ UNCHANGED <<distance_matrix, penalty_arg, mode, SCIPY_AVAILABLE,
                   QISKIT_AVAILABLE, formulation, qp, classical_result,
                   qaoa_result, best_solution, bitstring, decoded, energy>>

\* lines 336-361: solver.solve_qaoa(qp) returns; return best_solution
QuantumReturn ==
    /\ pc = "quantum"
    /\ QuantumSelected
    /\ \E result \in BackendResults(formulation.n) :
          LET d == decode_solution(formulation.n, result.bitstring)
              tour_length == TourLength(distance_matrix, d.tour, d.feasible)
          IN  /\ qaoa_result' = result
              /\ decoded' = d
              /\ IF d.raised # ""
                 THEN /\ raised' = d.raised
                      /\ pc' = "raised"
                      /\ UNCHANGED best_solution
                 ELSE /\ best_solution' =
                            IF QaoaReplacesBest(best_solution, d.feasible, tour_length)
                            THEN Solution(d, tour_length, result, "quantum")
                            ELSE IF best_solution.solver = "None"
                            THEN Solution(d, tour_length, result, "quantum")
                            ELSE best_solution
                      /\ pc' = "done"
                      /\ UNCHANGED raised
    /\ UNCHANGED <<distance_matrix, penalty_arg, mode, SCIPY_AVAILABLE,
                   QISKIT_AVAILABLE, formulation, qp, classical_result,
                   bitstring, energy>>

Next ==
    \/ Formulate
    \/ ClassicalSkip
    \/ ClassicalRaise
    \/ ClassicalReturn
    \/ QuantumSkip
    \/ QuantumRaise
    \/ QuantumReturn

Spec == InitSolve /\ [][Next]_vars

----------------------------------------------------------------------------
(* Claims about solve_tsp. *)

\* number of '1's of the bitstring b in column p (position p) of the n x n layout
OnesInColumn(n, b, p) == Cardinality({k \in 1 .. Len(b) : b[k] = "1" /\ (k - 1) % n = p})

\* number of '1's of the bitstring b in row i (city i) of the n x n layout
OnesInRow(n, b, i) == Cardinality({k \in 1 .. Len(b) : b[k] = "1" /\ (k - 1) \div n = i})

BadColumns(n, b) == {p \in Range(n) : OnesInColumn(n, b, p) # 1}

BadRows(n, b) == {i \in Range(n) : OnesInRow(n, b, i) # 1}

IsSquare(dm) == \A i \in 1 .. Len(dm) : Len(dm[i]) = Len(dm)

HasNegativeEntry(dm) == \E i \in 1 .. Len(dm) : \E j \in 1 .. Len(dm[i]) : dm[i][j] < 0

InvalidInput(dm) == ~IsSquare(dm) \/ Len(dm) < 2 \/ HasNegativeEntry(dm)

\* solve_tsp was called with a square matrix of n >= 2 non-negative distances
ValidInput == ~InvalidInput(distance_matrix)

\* the backend returned a candidate
Returned(result) == result # NoValue

\* the candidate's bitstring has exactly one 1 in every row and every column
IsFeasible(result) ==
    /\ Returned(result)
    /\ BadColumns(formulation.n, result.bitstring) = {}
    /\ BadRows(formulation.n, result.bitstring) = {}

\* the city a feasible bitstring b places at position p
CityAtPosition(n, b, p) == CHOOSE i \in Range(n) : b[i * n + p + 1] = "1"

\* the length of the closed tour a feasible candidate stands for
LengthOf(result) ==
    LET n == formulation.n
    IN  SumSeq([k \in 1 .. n |->
            distance_matrix[CityAtPosition(n, result.bitstring, k - 1) + 1]
                           [CityAtPosition(n, result.bitstring, k % n) + 1]])

Candidates == {r \in {classical_result, qaoa_result} : Returned(r)}

\* C1: in hybrid mode with both backends returning a bitstring, if at least one
\* candidate decodes to a feasible tour, the returned result has feasible=true,
\* its length is the minimum tour length among the feasible candidates, and its
\* solver names a backend that produced such a candidate.
C1_HybridPicksBestFeasible ==
    (/\ pc = "done"
     /\ ValidInput
     /\ mode = "hybrid"
     /\ Returned(classical_result) /\ Returned(qaoa_result)
     /\ \E r \in Candidates : IsFeasible(r))
    =>
        /\ best_solution.feasible = TRUE
        /\ \A r \in Candidates : IsFeasible(r) => best_solution.length <= LengthOf(r)
        /\ \/ /\ best_solution.solver = "classical"
              /\ IsFeasible(classical_result)
              /\ best_solution.length = LengthOf(classical_result)
           \/ /\ best_solution.solver = "quantum"
              /\ IsFeasible(qaoa_result)
              /\ best_solution.length = LengthOf(qaoa_result)

\* C2: when at least one backend returned a candidate and no candidate decodes
\* to a feasible tour, the returned result is the candidate with the lowest
\* reported energy, with feasible=false and an empty tour.
C2_LowestEnergyInfeasible ==
    (/\ pc = "done"
     /\ ValidInput
     /\ Candidates # {}
     /\ \A r \in Candidates : ~IsFeasible(r))
    =>
        /\ best_solution.feasible = FALSE
        /\ best_solution.tour = <<>>
        /\ \A r \in Candidates : best_solution.energy <= r.energy
        /\ \E r \in Candidates :
              /\ best_solution.energy = r.energy
              /\ best_solution.bitstring = r.bitstring

\* solve_tsp has ended, by a return or by an exception, after the formulation
\* was built and the backends' turn came
BackendsTurnOver == pc \in {"done", "raised"} /\ qp # NoValue

\* every backend the mode selects is unavailable or has raised
EveryBackendFailed ==
    /\ mode \in {"classical", "hybrid"} =>
          (~SCIPY_AVAILABLE \/ raised = "Exception in solve_classically")
    /\ mode \in {"quantum", "hybrid"} =>
          (~QISKIT_AVAILABLE \/ raised = "Exception in solve_qaoa")

\* C3: if every backend selected by the mode fails or is unavailable, solve_tsp
\* fails (with NoSolverAvailableError; the class of the exception is not
\* compared here): it never returns a result value in that case.
C3_NoCandidateFails ==
    (ValidInput /\ BackendsTurnOver /\ EveryBackendFailed) => pc = "raised"

\* C4: a backend invocation that raises is caught and treated as "no candidate
\* from this backend": the error does not reach the caller of solve_tsp.
C4_BackendErrorCaught ==
    (ValidInput /\ pc = "raised") =>
        raised \notin {"Exception in solve_classically", "Exception in solve_qaoa"}

\* C5: for a distance matrix that is not square, has n < 2 or has a negative
\* entry, the formulation fails with an invalid-input error, no QUBO is built and
\* no backend is invoked (stated for the runs in which Qiskit is installed, so
\* that the formulation itself can run).
C5_InvalidInputRejected ==
    (InvalidInput(distance_matrix) /\ QISKIT_AVAILABLE /\ pc # "start")
    =>
        /\ pc = "raised"
        /\ raised \in {"InvalidInputError", "ValueError"}
        /\ qp = NoValue
        /\ classical_result = NoValue /\ qaoa_result = NoValue

----------------------------------------------------------------------------
(* Claims about decode_solution. *)

\* C6: decoding the bitstring of a permutation pi (a 1 exactly at index
\* pi(p)*n + p for each position p) returns feasible=true, zero position and
\* city violations and the tour [pi(0), ..., pi(n-1), pi(0)]: length n+1, first
\* entry equal to last, every city exactly once among the first n entries.
C6_PermutationDecodes ==
    pc = "decoded" =>
        \A pi \in CityPermutations(formulation.n) :
            IsPermutationBitstring(formulation.n, pi, bitstring) =>
                /\ decoded.raised = ""
                /\ decoded.feasible = TRUE
                /\ decoded.violations = [pos |-> 0, city |-> 0]
                /\ Len(decoded.tour) = formulation.n + 1
                /\ \A p \in Range(formulation.n) : decoded.tour[p + 1] = pi[p]
                /\ decoded.tour[formulation.n + 1] = decoded.tour[1]
                /\ \A c \in Range(formulation.n) :
                      Cardinality({p \in 1 .. formulation.n : decoded.tour[p] = c}) = 1

\* a 3-city permutation that is not its own inverse has been decoded
C6_Witness ==
    /\ pc = "decoded"
    /\ formulation.n = 3
    /\ bitstring = PermutationBitstring(3, [p \in Range(3) |-> (p + 1) % 3])
    /\ decoded.tour = <<1, 2, 0, 1>>

\* C7: for a binary bitstring of length n*n in which some row or column sum
\* differs from 1, decode returns feasible=false and an empty tour; the position
\* violations count the columns whose sum is not 1, the city violations the rows
\* whose sum is not 1, and their total is not zero.
C7_InfeasibleDecodes ==
    (/\ pc = "decoded"
     /\ Len(bitstring) = formulation.n * formulation.n
     /\ \A k \in 1 .. Len(bitstring) : bitstring[k] \in {"0", "1"}
     /\ BadColumns(formulation.n, bitstring) \cup BadRows(formulation.n, bitstring) # {})
    =>
        /\ decoded.raised = ""
        /\ decoded.feasible = FALSE
        /\ decoded.tour = <<>>
        /\ decoded.violations.pos = Cardinality(BadColumns(formulation.n, bitstring))
        /\ decoded.violations.city = Cardinality(BadRows(formulation.n, bitstring))
        /\ decoded.violations.pos + decoded.violations.city > 0

\* an infeasible bitstring with different numbers of bad columns and bad rows
\* has been decoded
C7_Witness ==
    /\ pc = "decoded"
    /\ decoded.raised = ""
    /\ decoded.feasible = FALSE
    /\ decoded.violations = [pos |-> 2, city |-> 1]

\* C8: decode fails with an invalid-bitstring error, returning no tour and no
\* feasibility verdict, whenever the bitstring length differs from n*n or some
\* character of the bitstring is something other than 0 or 1.
C8_InvalidBitstringRaises ==
    (/\ pc = "decoded"
     /\ \/ Len(bitstring) # formulation.n * formulation.n
        \/ \E k \in 1 .. Len(bitstring) : bitstring[k] \notin {"0", "1"})
    => decoded.raised = "ValueError"

----------------------------------------------------------------------------
(* Claims about the formulation. *)

AllZero(dm) == \A i \in 1 .. Len(dm) : \A j \in 1 .. Len(dm[i]) : dm[i][j] = 0

\* C9: the penalty of the formulation equals the explicit penalty argument
\* whenever one is supplied (0 included); when none is supplied it equals
\* 2 * n * max(distance matrix), except that for an all-zero matrix it is the
\* fallback 1000, so the auto-computed penalty is never zero.
C9_PenaltyChoice ==
    pc # "new" =>
        /\ penalty_arg # None => formulation.penalty = penalty_arg[1]
        /\ penalty_arg = None =>
              /\ formulation.penalty =
                    IF AllZero(distance_matrix) THEN 1000
                    ELSE 2 * Len(distance_matrix) * NpMax(distance_matrix)
              /\ formulation.penalty # 0

\* C10: with the auto-computed penalty, every infeasible binary assignment (some
\* row or column sum not 1) has an energy strictly greater than the energy of
\* every permutation assignment.
C10_InfeasibleAboveFeasible ==
    (/\ pc = "evaluated"
     /\ penalty_arg = None
     /\ BadColumns(formulation.n, bitstring) \cup BadRows(formulation.n, bitstring) # {})
    => \A pi \in CityPermutations(formulation.n) :
          energy > Energy(qp, PermutationBitstring(formulation.n, pi))

\* a 3-city assignment with one city missing (one bad row and one bad column)
\* has been evaluated on a matrix with non-zero distances, auto penalty
C10_Witness ==
    /\ pc = "evaluated"
    /\ penalty_arg = None
    /\ formulation.n = 3
    /\ NpMax(distance_matrix) > 0
    /\ Cardinality(BadColumns(3, bitstring)) = 1
    /\ Cardinality(BadRows(3, bitstring)) = 1
    /\ energy = formulation.penalty * 2

\* the sum of the distances between consecutive cities along the closed tour
\* pi(0) -> pi(1) -> ... -> pi(n-1) -> pi(0)
ClosedTourCost(dm, n, pi) ==
    SumSeq([k \in 1 .. n |-> dm[pi[k - 1] + 1][pi[k % n] + 1]])

\* a permutation bitstring has been evaluated
PermutationEvaluated(pi) ==
    /\ pc = "evaluated"
    /\ IsPermutationBitstring(formulation.n, pi, bitstring)

\* C11 as stated: the energy of every permutation bitstring equals the constant
\* plus the cost of the closed tour.
C11_EnergyIsConstantPlusCost ==
    \A pi \in CityPermutations(Len(distance_matrix)) :
        PermutationEvaluated(pi) =>
            energy = qp.constant
                     + ClosedTourCost(distance_matrix, formulation.n, pi)

\* C11: for every n >= 2, every non-negative distance matrix and every
\* permutation bitstring, the energy of the QUBO built by create_qubo equals the
\* cost of the closed tour exactly: the constant, the linear coefficients and
\* the quadratic penalty coefficients of the set variables cancel to zero
\* together (the linear and quadratic penalty parts alone sum to minus the
\* constant).
C11_EnergyIsTourCost ==
    \A pi \in CityPermutations(Len(distance_matrix)) :
        PermutationEvaluated(pi) =>
            /\ energy = ClosedTourCost(distance_matrix, formulation.n, pi)
            /\ LinearSum(qp, bitstring) + QuadraticSum(qp, bitstring)
                   - ClosedTourCost(distance_matrix, formulation.n, pi)
               = 0 - qp.constant
            /\ qp.constant = 2 * formulation.n * formulation.penalty

\* the tour 0 -> 2 -> 1 -> 0 of a 3-city matrix with non-zero distances has
\* been evaluated, and its energy is its non-zero cost
C11_Witness ==
    /\ formulation # NoValue
    /\ formulation.n = 3
    /\ PermutationEvaluated([p \in Range(3) |-> (2 * p) % 3])
    /\ energy = ClosedTourCost(distance_matrix, 3, [p \in Range(3) |-> (2 * p) % 3])
    /\ energy > 0
    /\ qp.constant > 0

\* x[i,p] of the claims: the value of the variable of city i at position p
XAt(n, x, i, p) == IF x[i * n + p + 1] = "1" THEN 1 ELSE 0

\* sum over distinct cities i, j and positions p of
\* D[i][j] * x[i,p] * x[j,(p+1) mod n]
ExpectedCost(dm, n, x) ==
    SumSeq([k \in 1 .. n * n * n |->
               LET i == (k - 1) \div (n * n)
                   j == ((k - 1) \div n) % n
                   p == (k - 1) % n
               IN  IF i = j THEN 0
                   ELSE dm[i + 1][j + 1] * XAt(n, x, i, p) * XAt(n, x, j, (p + 1) % n)])

Square(v) == v * v

\* sum over cities i of (1 - sum_p x[i,p])^2
CityViolation(n, x) == SumSeq([k \in 1 .. n |-> Square(1 - OnesInRow(n, x, k - 1))])

\* sum over positions p of (1 - sum_i x[i,p])^2
PositionViolation(n, x) == SumSeq([k \in 1 .. n |-> Square(1 - OnesInColumn(n, x, k - 1))])

\* the keys assigned by the cost loop and by the two penalty loops
CostKeys(n) == {CostKey(n, t) : t \in CostIterations(n)}

PenaltyKeys(n) == {CityKey(n, t) : t \in Iterations(n)} \cup {PositionKey(n, t) : t \in Iterations(n)}

\* C12: for every n >= 2, every distance matrix and every binary assignment x,
\* the energy of the coefficients built by create_qubo equals the cost sum over
\* distinct cities and positions plus penalty times the squared violations of
\* the city rows and of the position columns; no two iterations of the cost
\* loop assign the same key, no penalty key is a cost key, and every cost key
\* still holds its distance after the merge.
C12_EnergyIsCostPlusPenalties ==
    /\ pc = "evaluated" =>
          energy = ExpectedCost(distance_matrix, formulation.n, bitstring)
                   + formulation.penalty * CityViolation(formulation.n, bitstring)
                   + formulation.penalty * PositionViolation(formulation.n, bitstring)
    /\ pc = "built" =>
          /\ Cardinality(CostKeys(formulation.n)) = Cardinality(CostIterations(formulation.n))
          /\ CostKeys(formulation.n) \cap PenaltyKeys(formulation.n) = {}
          /\ DOMAIN qp.quadratic = CostKeys(formulation.n) \cup PenaltyKeys(formulation.n)
          /\ \A t \in CostIterations(formulation.n) :
                qp.quadratic[CostKey(formulation.n, t)]
                = distance_matrix[Outer(formulation.n, t) + 1][Middle(formulation.n, t) + 1]

\* an infeasible 3-city assignment has been evaluated under an explicit
\* penalty: city 0 sits at positions 0 and 1 (a diagonal-counted row of sum 2),
\* a cost term is active, and both penalty families contribute
C12_Witness ==
    /\ pc = "evaluated"
    /\ formulation.n = 3
    /\ penalty_arg = Some(MaxPenalty)
    /\ OnesInRow(3, bitstring, 0) = 2
    /\ ExpectedCost(distance_matrix, 3, bitstring) > 0
    /\ CityViolation(3, bitstring) > 0
    /\ PositionViolation(3, bitstring) > 0
    /\ energy = ExpectedCost(distance_matrix, 3, bitstring)
                + MaxPenalty * (CityViolation(3, bitstring) + PositionViolation(3, bitstring))

====
